---- MODULE Spec2Model ----
(***************************************************************************)
(* A model of the ranking core of src/pagerank.py: transition_model,       *)
(* sample_pagerank and iterate_pagerank, called in any order on a corpus   *)
(* as crawl() builds it (no self-links, no links leaving the corpus).      *)
(*                                                                         *)
(* Numbers.  The probabilities of transition_model and the ranks of        *)
(* iterate_pagerank are Python floats, computed operation by operation     *)
(* with the rounding of IEEE 754 binary64: (1 - 0.85)/3 is                 *)
(* 0.05000000000000001, and the convergence test of line 165 depends on    *)
(* the last bit of a difference.  A float is <<mantissa, exponent>>, the   *)
(* mantissa an arbitrary-precision natural number (a sequence of limbs,    *)
(* least significant first).  A normalised visit count of sample_pagerank  *)
(* is one division of two integers (line 111) and is kept as the reduced   *)
(* fraction <<numerator, denominator>> whose nearest float the program     *)
(* stores.                                                                 *)
(***************************************************************************)
EXTENDS Integers, Sequences, FiniteSets

\* ------------------------------------------------------------- bounds
\* The largest corpus explored (pages are numbered 1..N in the corpus
\* dictionary's iteration order).
MaxPages == 3
\* The largest sample count n passed to sample_pagerank.
MaxSamples == 3

\* The damping factors explored, as <<numerator, denominator>>; 17/20 is
\* DAMPING = 0.85.
DAMPING == <<17, 20>>
Dampings == {<<1, 2>>, DAMPING}

\* The sample counts explored: negative, zero and positive.
SampleCounts == (0 - 1) .. MaxSamples

\* 0.001 of the convergence test (line 165) is the float nearest to
\* 1/ThresholdDen.
ThresholdDen == 1000

\* ------------------------------------------------- reduced fractions
RECURSIVE Gcd(_, _)
Gcd(a, b) == IF b = 0 THEN a ELSE Gcd(b, a % b)

Abs(x) == IF x < 0 THEN 0 - x ELSE x

\* The fraction a/b (b # 0) in lowest terms with a positive denominator.
Rat(a, b) ==
    LET g == Gcd(Abs(a), Abs(b))
        s == IF b < 0 THEN 0 - 1 ELSE 1
    IN  <<(s * a) \div g, (s * b) \div g>>

RatAdd(x, y) == Rat(x[1] * y[2] + y[1] * x[2], x[2] * y[2])
RatOne == <<1, 1>>

\* The sum of the first k of the fractions f[1], f[2], ...
RatSumTo[f \in Seq(Seq(Int)), k \in Nat] ==
    IF k = 0 THEN <<0, 1>> ELSE RatAdd(f[k], RatSumTo[f, k - 1])

\* The sum of the values of a mapping of the pages 1..N to fractions.
RatSum(f) == RatSumTo[f, Len(f)]

\* ------------------------------------- arbitrary-precision naturals
\* A natural number is the sequence of its limbs in base Base, least
\* significant first, without leading zero limbs; zero is << >>.  The
\* arithmetic is written as functions of the limb sequences, so that every
\* argument is a value by the time the limbs are read.
LimbBits == 15
Base == 2 ^ LimbBits

Big == Seq(Nat)

BigMulFrom[a \in Big, m \in Nat, i \in Nat, carry \in Nat] ==
    IF i > Len(a)
    THEN IF carry = 0 THEN << >>
         ELSE <<carry % Base>> \o BigMulFrom[a, m, i, carry \div Base]
    ELSE LET v == a[i] * m + carry
         IN  <<v % Base>> \o BigMulFrom[a, m, i + 1, v \div Base]

\* a * m for a small natural m (m * Base fits the machine integer).
BigMul(a, m) == IF m = 0 THEN << >> ELSE BigMulFrom[a, m, 1, 0]

BigAddFrom[a \in Big, b \in Big, i \in Nat, carry \in Nat] ==
    IF i > Len(a) /\ i > Len(b)
    THEN IF carry = 0 THEN << >> ELSE <<carry>>
    ELSE LET v == (IF i <= Len(a) THEN a[i] ELSE 0)
                  + (IF i <= Len(b) THEN b[i] ELSE 0) + carry
         IN  <<v % Base>> \o BigAddFrom[a, b, i + 1, v \div Base]

BigAdd(a, b) == BigAddFrom[a, b, 1, 0]

\* a < b for a and b of the same length, deciding at limb i or below.
BigLessFrom[a \in Big, b \in Big, i \in Nat] ==
    IF i = 0 THEN FALSE
    ELSE IF a[i] # b[i] THEN a[i] < b[i]
    ELSE BigLessFrom[a, b, i - 1]

BigLessThan[a \in Big, b \in Big] ==
    IF Len(a) # Len(b) THEN Len(a) < Len(b) ELSE BigLessFrom[a, b, Len(a)]

BigLess(a, b) == BigLessThan[a, b]

BigTrim[a \in Big] ==
    IF a = << >> THEN a
    ELSE IF a[Len(a)] = 0 THEN BigTrim[SubSeq(a, 1, Len(a) - 1)]
    ELSE a

BigSubFrom[a \in Big, b \in Big, i \in Nat, borrow \in Nat] ==
    IF i > Len(a) THEN << >>
    ELSE LET v == a[i] - (IF i <= Len(b) THEN b[i] ELSE 0) - borrow
         IN  IF v < 0 THEN <<v + Base>> \o BigSubFrom[a, b, i + 1, 1]
             ELSE <<v>> \o BigSubFrom[a, b, i + 1, 0]

\* a - b for a >= b.
BigSub(a, b) == BigTrim[BigSubFrom[a, b, 1, 0]]

\* The quotient limbs i, i-1, ..., 1 of a divided by a small d, the limbs
\* above i having left the remainder rem.
BigDivFrom[a \in Big, d \in Nat, i \in Nat, rem \in Nat] ==
    IF i = 0 THEN << >>
    ELSE BigDivFrom[a, d, i - 1, (rem * Base + a[i]) % d]
            \o <<(rem * Base + a[i]) \div d>>

\* floor(a / d) for a small d > 0 (d <= Base).
BigDiv(a, d) == BigTrim[BigDivFrom[a, d, Len(a), 0]]

\* a * Base
BigShiftLimb[a \in Big] == IF a = << >> THEN a ELSE <<0>> \o a

\* a * b
BigTimesFrom[a \in Big, b \in Big, j \in Nat] ==
    IF j > Len(b) THEN << >>
    ELSE BigAdd(BigMul(a, b[j]), BigShiftLimb[BigTimesFrom[a, b, j + 1]])

BigTimes(a, b) == BigTimesFrom[a, b, 1]

\* a * 2^s and floor(a / 2^s)
BigShiftLeft[a \in Big, s \in Nat] ==
    IF a = << >> \/ s = 0 THEN a
    ELSE [k \in 1 .. (s \div LimbBits) |-> 0] \o BigMul(a, 2 ^ (s % LimbBits))

BigShiftRight[a \in Big, s \in Nat] ==
    IF s = 0 THEN a
    ELSE IF s \div LimbBits >= Len(a) THEN << >>
    ELSE BigDiv(SubSeq(a, (s \div LimbBits) + 1, Len(a)), 2 ^ (s % LimbBits))

\* The number of binary digits of a.
BitLength[x \in Nat] ==
    IF x >= 2 ^ 8 THEN 8 + BitLength[x \div 2 ^ 8]
    ELSE IF x >= 2 ^ 4 THEN 4 + BitLength[x \div 2 ^ 4]
    ELSE IF x >= 2 ^ 2 THEN 2 + BitLength[x \div 2 ^ 2]
    ELSE IF x = 0 THEN 0 ELSE x \div 2 + 1

BigBitLength[a \in Big] ==
    IF a = << >> THEN 0 ELSE LimbBits * (Len(a) - 1) + BitLength[a[Len(a)]]

\* ---------------------------------------------- Python floats (binary64)
\* A non-negative float is <<m, e>> and stands for m * 2^e: m has exactly
\* MantissaBits binary digits, or is zero with e = 0.  The program's values
\* stay far from the overflow and subnormal ranges, and the one difference
\* that can be negative (line 165) goes through abs(), so no sign is kept.
MantissaBits == 53

Float == Big \X Int

FloatZero == <<<< >>, 0>>

\* The mantissa q * 2^e after rounding, brought back to MantissaBits digits
\* when rounding up carried into one more.
FloatNormal[q \in Big, e \in Int] ==
    IF BigBitLength[q] > MantissaBits
    THEN <<BigShiftRight[q, 1], e + 1>>
    ELSE <<q, e>>

\* The exact mantissa m is cut after its first MantissaBits digits: t is m
\* without its last s - 1 digits, so the last digit of t is the first digit cut
\* off.  The mantissa is rounded up when that digit is 1 and either a digit cut
\* off after it is not 0, or more follows, or the digit before it is 1.
FloatRoundsUp[m \in Big, t \in Big, more \in BOOLEAN, s \in Nat] ==
    /\ t[1] % 2 = 1
    /\ \/ more
       \/ (t[1] \div 2) % 2 = 1
       \/ BigShiftLeft[t, s - 1] # m

FloatRoundCut[m \in Big, t \in Big, e \in Int, more \in BOOLEAN, s \in Nat] ==
    FloatNormal[IF FloatRoundsUp[m, t, more, s]
                THEN BigAdd(BigShiftRight[t, 1], <<1>>)
                ELSE BigShiftRight[t, 1],
                e + s]

\* The float nearest to m * 2^e, m having `bits` binary digits.
FloatRoundTo[m \in Big, e \in Int, more \in BOOLEAN, bits \in Nat] ==
    IF bits = 0 THEN FloatZero
    ELSE IF bits <= MantissaBits
    THEN <<BigShiftLeft[m, MantissaBits - bits], e - (MantissaBits - bits)>>
    ELSE FloatRoundCut[m, BigShiftRight[m, bits - MantissaBits - 1], e, more,
                       bits - MantissaBits]

\* The float nearest to m * 2^e (to m * 2^e plus a positive fraction of 2^e
\* when `more`), ties to the even mantissa: what every float operation
\* returns for its exact result.
FloatRound[m \in Big, e \in Int, more \in BOOLEAN] ==
    FloatRoundTo[m, e, more, BigBitLength[m]]

\* float(k) for a small natural k.
FloatOfInt(k) == FloatRound[IF k = 0 THEN << >> ELSE <<k>>, 0, FALSE]

Min(a, b) == IF a < b THEN a ELSE b

\* x + y
FloatSum[x \in Float, y \in Float] ==
    IF x[1] = << >> THEN y
    ELSE IF y[1] = << >> THEN x
    ELSE FloatRound[BigAdd(BigShiftLeft[x[1], x[2] - Min(x[2], y[2])],
                           BigShiftLeft[y[1], y[2] - Min(x[2], y[2])]),
                    Min(x[2], y[2]), FALSE]

FloatAdd(x, y) == FloatSum[x, y]

\* x < y
FloatLessThan[x \in Float, y \in Float] ==
    IF y[1] = << >> THEN FALSE
    ELSE IF x[1] = << >> THEN TRUE
    ELSE IF x[2] # y[2] THEN x[2] < y[2]
    ELSE BigLess(x[1], y[1])

FloatLess(x, y) == FloatLessThan[x, y]

\* x - y for x >= y
FloatDifference[x \in Float, y \in Float] ==
    IF y[1] = << >> THEN x
    ELSE FloatRound[BigSub(BigShiftLeft[x[1], x[2] - Min(x[2], y[2])],
                           BigShiftLeft[y[1], y[2] - Min(x[2], y[2])]),
                    Min(x[2], y[2]), FALSE]

FloatSub(x, y) == FloatDifference[x, y]

\* abs(x - y)
FloatDistance[x \in Float, y \in Float] ==
    IF FloatLess(x, y) THEN FloatSub(y, x) ELSE FloatSub(x, y)

FloatAbsDiff(x, y) == FloatDistance[x, y]

\* x * y
FloatProduct[x \in Float, y \in Float] ==
    IF x[1] = << >> \/ y[1] = << >> THEN FloatZero
    ELSE FloatRound[BigTimes(x[1], y[1]), x[2] + y[2], FALSE]

FloatMul(x, y) == FloatProduct[x, y]

\* The remainder of a by a small d, the limbs above i having left rem.
BigModFrom[a \in Big, d \in Nat, i \in Nat, rem \in Nat] ==
    IF i = 0 THEN rem ELSE BigModFrom[a, d, i - 1, (rem * Base + a[i]) % d]

\* The quotient of m * 2^e by a small k: floor(m / k) has more than
\* MantissaBits + 1 binary digits and is rounded, with more to follow when the
\* division leaves a remainder.
FloatQuotient[m \in Big, e \in Int, k \in Nat] ==
    FloatRound[BigDiv(m, k), e, BigModFrom[m, k, Len(m), 0] # 0]

\* x / k for a small integer k > 0 (k < Base).  Dividing by a power of two
\* only lowers the exponent; otherwise the mantissa gets QuotientLimbs zero
\* limbs below it before it is divided.
QuotientLimbs == 2

FloatOver[x \in Float, k \in Nat] ==
    IF x[1] = << >> THEN FloatZero
    ELSE IF k = 2 ^ (BitLength[k] - 1) THEN <<x[1], x[2] - (BitLength[k] - 1)>>
    ELSE FloatQuotient[[j \in 1 .. QuotientLimbs |-> 0] \o x[1],
                       x[2] - QuotientLimbs * LimbBits, k]

FloatDivInt(x, k) == FloatOver[x, k]

\* a / b for small natural numbers: the float a decimal literal such as 0.85
\* (17/20) or 0.001 (1/1000) denotes, and the result of int / int.
FloatOfRatio(a, b) == FloatDivInt(FloatOfInt(a), b)

\* The float a damping factor <<numerator, denominator>> is passed as.
FloatOfDamping(d) == FloatOfRatio(d[1], d[2])

\* ------------------------------------------------------------ corpus
\* The corpora crawl() can return over the pages 1..N: every page maps to a
\* set of other pages of the corpus (line 39 removes the self-link, lines
\* 42-46 remove the links that leave the corpus).
Corpora(N) ==
    {c \in [1 .. N -> SUBSET (1 .. N)] : \A p \in 1 .. N : p \notin c[p]}

\* len(corpus)
NumPages(corp) == Cardinality(DOMAIN corp)

\* -------------------------------------------------- transition_model
\* Mutation: the two branches of the test `key not in corpus[page]` swapped.
transition_model_swapped(corp, page, d) ==
    LET links == corp[page]
        split_prob == FloatDivInt(FloatSub(FloatOfInt(1), FloatOfDamping(d)), NumPages(corp))
        equal_prob == FloatOfRatio(1, NumPages(corp))
    IN  IF links # {}
        THEN LET damping_prob == FloatDivInt(FloatOfDamping(d), Cardinality(links))
             IN  [key \in DOMAIN corp |->
                    IF key \in corp[page] THEN split_prob
                    ELSE FloatAdd(damping_prob, split_prob)]
        ELSE [key \in DOMAIN corp |-> equal_prob]

\* Mutation: damping_prob divides by the number of pages, not of links.
transition_model_all_pages(corp, page, d) ==
    LET links == corp[page]
        split_prob == FloatDivInt(FloatSub(FloatOfInt(1), FloatOfDamping(d)), NumPages(corp))
        equal_prob == FloatOfRatio(1, NumPages(corp))
    IN  IF links # {}
        THEN LET damping_prob == FloatDivInt(FloatOfDamping(d), NumPages(corp))
             IN  [key \in DOMAIN corp |->
                    IF key \notin corp[page] THEN split_prob
                    ELSE FloatAdd(damping_prob, split_prob)]
        ELSE [key \in DOMAIN corp |-> equal_prob]

\* transition_model(corpus, page, damping_factor), lines 62-84.
transition_model(corp, page, d) ==
    LET links == corp[page]
        split_prob == FloatDivInt(FloatSub(FloatOfInt(1), FloatOfDamping(d)), NumPages(corp))
        equal_prob == FloatOfRatio(1, NumPages(corp))
    IN  IF links # {}
        THEN LET damping_prob == FloatDivInt(FloatOfDamping(d), Cardinality(links))
             IN  [key \in DOMAIN corp |->
                    IF key \notin corp[page] THEN split_prob
                    ELSE FloatAdd(damping_prob, split_prob)]
        ELSE [key \in DOMAIN corp |-> equal_prob]

\* -------------------------------------------------------------- state
VARIABLES
    corpus,             \* the corpus passed to every call
    damping_factor,     \* the damping factor passed to every call
    fn,                 \* the function being executed, "none" between calls
    pc,                 \* where the executing function is
    err,                \* the exception a call ended with, "none" otherwise
    cur_page,           \* transition_model's argument `page`
    prob_distribution,  \* the mapping transition_model returned
    n,                  \* sample_pagerank's argument n
    i,                  \* sample_pagerank's loop variable (line 104)
    sample,             \* sample_pagerank's current page
    page_distribution,  \* the executing estimator's page_distribution
    convergence_count,  \* iterate_pagerank's convergence_count
    page_index,         \* iterate_pagerank: the page the for loop of line 144 is at
    sweep_start,        \* history: the ranks as the current sweep found them
    overwritten         \* history: each rank as it was just before its last overwrite

vars == <<corpus, damping_factor, fn, pc, err, cur_page, prob_distribution, n, i,
          sample, page_distribution, convergence_count, page_index,
          sweep_start, overwritten>>

tm_vars == <<cur_page, prob_distribution>>
sample_vars == <<n, i, sample>>
iterate_vars == <<convergence_count, page_index, sweep_start, overwritten>>

Pages == DOMAIN corpus
num_pages == NumPages(corpus)

\* No call is executing and no local of any call exists.
NoLocals ==
    /\ fn = "none" /\ pc = "main" /\ err = "none"
    /\ cur_page = 0 /\ prob_distribution = << >>
    /\ n = 0 /\ i = 0 /\ sample = 0
    /\ page_distribution = << >>
    /\ convergence_count = 0 /\ page_index = 0
    /\ sweep_start = << >> /\ overwritten = << >>

Init ==
    /\ \E N \in 0 .. MaxPages : corpus \in Corpora(N)
    /\ damping_factor \in Dampings
    /\ NoLocals

\* A finished call's locals go away and main() goes on to its next call.
Return ==
    /\ pc \in {"done", "error"}
    /\ fn' = "none" /\ pc' = "main" /\ err' = "none"
    /\ cur_page' = 0 /\ prob_distribution' = << >>
    /\ n' = 0 /\ i' = 0 /\ sample' = 0
    /\ page_distribution' = << >>
    /\ convergence_count' = 0 /\ page_index' = 0
    /\ sweep_start' = << >> /\ overwritten' = << >>
    /\ UNCHANGED <<corpus, damping_factor>>

\* --------------------------------------------- a transition_model call
\* Mutation: a dead end's link set is filled in place,
\* links = corpus[page]; links.update(corpus.keys() - {page}).
TransitionModelCallFillingLinks(page) ==
    /\ pc = "main"
    /\ page \in Pages
    /\ fn' = "transition_model"
    /\ cur_page' = page
    /\ prob_distribution' = transition_model(corpus, page, damping_factor)
    /\ pc' = "done"
    /\ corpus' = [corpus EXCEPT ![page] =
                     IF corpus[page] = {} THEN Pages \ {page} ELSE corpus[page]]
    /\ UNCHANGED <<damping_factor, err, page_distribution>>
    /\ UNCHANGED sample_vars
    /\ UNCHANGED iterate_vars

\* transition_model(corpus, page, damping_factor) called on a page of the
\* corpus, lines 51-84.
TransitionModelCall(page) ==
    /\ pc = "main"
    /\ page \in Pages
    /\ fn' = "transition_model"
    /\ cur_page' = page
    /\ prob_distribution' = transition_model(corpus, page, damping_factor)
    /\ pc' = "done"
    /\ UNCHANGED <<corpus, damping_factor, err, page_distribution>>
    /\ UNCHANGED sample_vars
    /\ UNCHANGED iterate_vars

\* ------------------------------------------------------ sample_pagerank
\* The pages random.choices (line 107) can draw: those of positive weight.
Drawable(dist) == {key \in DOMAIN dist : FloatLess(FloatZero, dist[key])}

\* Mutation: the loop of line 104 written range(0, n).
SampleStartFromZero(k) ==
    /\ pc = "main"
    /\ Pages # {}
    /\ fn' = "sample_pagerank"
    /\ n' = k
    /\ page_distribution' = [page \in Pages |-> 0]
    /\ \E first \in Pages : sample' = first
    /\ i' = 0
    /\ pc' = "sample_loop"
    /\ UNCHANGED <<corpus, damping_factor, err>>
    /\ UNCHANGED tm_vars
    /\ UNCHANGED iterate_vars

\* sample_pagerank(corpus, damping_factor, k) up to its loop, lines 97-104:
\* the counts start at 0 and random.choice picks the first page.
SampleStart(k) ==
    /\ pc = "main"
    /\ Pages # {}
    /\ fn' = "sample_pagerank"
    /\ n' = k
    /\ page_distribution' = [page \in Pages |-> 0]
    /\ \E first \in Pages : sample' = first
    /\ i' = 1
    /\ pc' = "sample_loop"
    /\ UNCHANGED <<corpus, damping_factor, err>>
    /\ UNCHANGED tm_vars
    /\ UNCHANGED iterate_vars

\* On an empty corpus random.choice([]) of line 102 raises IndexError.
SampleStartEmpty(k) ==
    /\ pc = "main"
    /\ Pages = {}
    /\ fn' = "sample_pagerank"
    /\ n' = k
    /\ page_distribution' = [page \in Pages |-> 0]
    /\ pc' = "error"
    /\ err' = "IndexError"
    /\ UNCHANGED <<corpus, damping_factor, i, sample>>
    /\ UNCHANGED tm_vars
    /\ UNCHANGED iterate_vars

\* One pass of the loop, lines 104-107: tally the current page, draw the next.
SampleStep ==
    /\ pc = "sample_loop"
    /\ i < n
    /\ page_distribution' = [page_distribution EXCEPT ![sample] = @ + 1]
    /\ \E next \in Drawable(transition_model(corpus, sample, damping_factor)) :
          sample' = next
    /\ i' = i + 1
    /\ UNCHANGED <<corpus, damping_factor, fn, pc, err, n>>
    /\ UNCHANGED tm_vars
    /\ UNCHANGED iterate_vars

\* After the loop, lines 110-113: every count is divided by n and the mapping
\* returned.
SampleFinish ==
    /\ pc = "sample_loop"
    /\ i >= n
    /\ n # 0
    /\ page_distribution' = [page \in Pages |-> Rat(page_distribution[page], n)]
    /\ pc' = "done"
    /\ UNCHANGED <<corpus, damping_factor, fn, err>>
    /\ UNCHANGED tm_vars
    /\ UNCHANGED sample_vars
    /\ UNCHANGED iterate_vars

\* With n = 0 the first division of line 111 raises ZeroDivisionError.
SampleFinishZeroDivision ==
    /\ pc = "sample_loop"
    /\ i >= n
    /\ n = 0
    /\ pc' = "error"
    /\ err' = "ZeroDivisionError"
    /\ UNCHANGED <<corpus, damping_factor, fn, page_distribution>>
    /\ UNCHANGED tm_vars
    /\ UNCHANGED sample_vars
    /\ UNCHANGED iterate_vars

\* ----------------------------------------------------- iterate_pagerank
\* The float 0.001 of line 165.
Threshold == FloatOfRatio(1, ThresholdDen)

\* The pages `link` of the loop of line 153 that pass the test of line 154,
\* in the corpus's order.
LinkingPages(corp, page) ==
    SelectSeq([q \in 1 .. NumPages(corp) |-> q], LAMBDA link : page \in corp[link])

\* `sum` of lines 151-156 after the first k of the pages `links`:
\* page_distribution[link]/num_links added for each, one after the other.
LinkSum[corp \in Seq(SUBSET Nat), pd \in Seq(Float), links \in Seq(Nat), k \in Nat] ==
    IF k = 0 THEN FloatZero
    ELSE FloatAdd(LinkSum[corp, pd, links, k - 1],
                  FloatDivInt(pd[links[k]], Cardinality(corp[links[k]])))

\* new_rank of lines 148-161 for `page` from the ranks pd:
\* (1 - damping_factor)/num_pages plus damping_factor times the sum of
\* page_distribution[link]/len(corpus[link]) over the pages linking to `page`.
\* new_rank for the float d and the linking pages `links`.
NewRankOver[corp \in Seq(SUBSET Nat), d \in Float, pd \in Seq(Float), links \in Seq(Nat)] ==
    FloatAdd(FloatDivInt(FloatSub(FloatOfInt(1), d), NumPages(corp)),
             FloatMul(LinkSum[corp, pd, links, Len(links)], d))

NewRank(corp, d, pd, page) ==
    NewRankOver[corp, FloatOfDamping(d), pd, LinkingPages(corp, page)]

\* Mutation: the test of line 165 without abs().
WithinThresholdSigned(new, old) ==
    \/ FloatLess(new, old)
    \/ FloatLess(FloatSub(new, old), Threshold)

\* abs(new_rank - page_distribution[page]) < 0.001 of line 165.
WithinThreshold(new, old) == FloatLess(FloatAbsDiff(new, old), Threshold)

\* Mutation: the test of line 170 off by one.
ConvergedOffByOne(count, total) == count = total + 1

\* convergence_count == num_pages of line 170.
Converged(count, total) == count = total

\* iterate_pagerank(corpus, damping_factor) up to its first sweep, lines
\* 128-141: every rank is 1/num_pages.
IterStart ==
    /\ pc = "main"
    /\ fn' = "iterate_pagerank"
    /\ page_distribution' = [page \in Pages |-> FloatOfRatio(1, num_pages)]
    /\ convergence_count' = 0
    /\ page_index' = 1
    /\ sweep_start' = [page \in Pages |-> FloatOfRatio(1, num_pages)]
    /\ overwritten' = [page \in Pages |-> FloatOfRatio(1, num_pages)]
    /\ pc' = "sweep"
    /\ UNCHANGED <<corpus, damping_factor, err>>
    /\ UNCHANGED tm_vars
    /\ UNCHANGED sample_vars

\* One pass of the for loop of line 144, lines 144-168, for the page
\* page_index: its new rank is computed from page_distribution as it stands
\* and written back into page_distribution.
IterPage ==
    /\ pc = "sweep"
    /\ page_index <= num_pages
    /\ \E page \in {page_index} :
       \E new_rank \in {NewRank(corpus, damping_factor, page_distribution, page)} :
           /\ convergence_count' =
                 IF WithinThreshold(new_rank, page_distribution[page])
                 THEN convergence_count + 1 ELSE convergence_count
           /\ page_distribution' = [page_distribution EXCEPT ![page] = new_rank]
           /\ overwritten' = [overwritten EXCEPT ![page] = page_distribution[page]]
    /\ page_index' = page_index + 1
    /\ UNCHANGED <<corpus, damping_factor, fn, pc, err, sweep_start>>
    /\ UNCHANGED tm_vars
    /\ UNCHANGED sample_vars

\* The sweep is over and every page was within the threshold: break (lines
\* 170-171) and return page_distribution (line 174).
IterBreak ==
    /\ pc = "sweep"
    /\ page_index > num_pages
    /\ Converged(convergence_count, num_pages)
    /\ pc' = "done"
    /\ UNCHANGED <<corpus, damping_factor, fn, err, page_distribution,
                   convergence_count, page_index, sweep_start, overwritten>>
    /\ UNCHANGED tm_vars
    /\ UNCHANGED sample_vars

\* The sweep is over and some page was not within the threshold: the while
\* loop goes round (line 137 has no cap), convergence_count is 0 again
\* (line 141).
IterNextSweep ==
    /\ pc = "sweep"
    /\ page_index > num_pages
    /\ ~Converged(convergence_count, num_pages)
    /\ convergence_count' = 0
    /\ page_index' = 1
    /\ sweep_start' = page_distribution
    /\ UNCHANGED <<corpus, damping_factor, fn, pc, err, page_distribution,
                   overwritten>>
    /\ UNCHANGED tm_vars
    /\ UNCHANGED sample_vars

\* ------------------------------------------------------- specification
Next ==
    \/ \E page \in Pages : TransitionModelCall(page)
    \/ \E k \in SampleCounts : SampleStart(k)
    \/ \E k \in SampleCounts : SampleStartEmpty(k)
    \/ SampleStep
    \/ SampleFinish
    \/ SampleFinishZeroDivision
    \/ IterStart
    \/ IterPage
    \/ IterBreak
    \/ IterNextSweep
    \/ Return

Spec == Init /\ [][Next]_vars

\* iterate_pagerank alone, called again and again with DAMPING as main()
\* calls it (line 18).  A call that has started runs on: the program is
\* sequential and nothing suspends it.
InitIterate ==
    /\ Init
    /\ damping_factor = DAMPING

NextIterate ==
    \/ IterStart
    \/ IterPage
    \/ IterBreak
    \/ IterNextSweep
    \/ Return

SpecLive == InitIterate /\ [][NextIterate]_vars /\ WF_vars(NextIterate)

\* -------------------------------------------------------------- claims
dn == damping_factor[1]
dd == damping_factor[2]

TransitionModelReturned == fn = "transition_model" /\ pc = "done"
SampleReturned == fn = "sample_pagerank" /\ pc = "done"
IterateReturned == fn = "iterate_pagerank" /\ pc = "done"
Finished == pc \in {"done", "error"}

\* The fraction x equals a/b.
RatIs(x, a, b) == x[1] * b = a * x[2]

\* The tolerance of a probability and of a sum: 0.001 cubed, 1e-9 up to
\* rounding.
SumTolerance == FloatMul(FloatMul(Threshold, Threshold), Threshold)

\* The floats x and y, as the numbers they stand for, are less than the float
\* t apart: |x - y| < t without any rounding.
DistanceIsLess[x \in Float, y \in Float, t \in Float] ==
    LET e == Min(Min(x[2], y[2]), t[2])
        xm == BigShiftLeft[x[1], x[2] - e]
        ym == BigShiftLeft[y[1], y[2] - e]
    IN  BigLess(IF BigLess(xm, ym) THEN BigSub(ym, xm) ELSE BigSub(xm, ym),
                BigShiftLeft[t[1], t[2] - e])

ExactlyWithin(x, y, t) == DistanceIsLess[x, y, t]

\* The floats x and y stand for the same number, whatever the length of
\* their mantissas.
SameNumber(x, y) ==
    LET e == Min(x[2], y[2])
    IN  BigShiftLeft[x[1], x[2] - e] = BigShiftLeft[y[1], y[2] - e]

\* The float x, as the number it stands for, is less than the float t away
\* from the fraction a/b: |x - a/b| < t without any rounding.
RatioIsNear[x \in Float, a \in Nat, b \in Nat, t \in Float] ==
    LET e == Min(Min(x[2], t[2]), 0)
        xb == BigMul(BigShiftLeft[x[1], x[2] - e], b)
        au == BigMul(BigShiftLeft[<<1>>, 0 - e], a)
    IN  BigLess(IF BigLess(xb, au) THEN BigSub(au, xb) ELSE BigSub(xb, au),
                BigMul(BigShiftLeft[t[1], t[2] - e], b))

NearRatio(x, a, b, t) == RatioIsNear[x, a, b, t]

\* d/L + (1-d)/N, (1-d)/N and 1/N as Python evaluates them for the damping
\* factor d.
LinkedValue(d, L, N) ==
    FloatAdd(FloatDivInt(FloatOfDamping(d), L),
             FloatDivInt(FloatSub(FloatOfInt(1), FloatOfDamping(d)), N))

UnlinkedValue(d, N) == FloatDivInt(FloatSub(FloatOfInt(1), FloatOfDamping(d)), N)

UniformValue(N) == FloatOfRatio(1, N)

\* C1: transition_model returns a mapping over exactly the pages of the
\* corpus; when `page` has L > 0 links, a linked page gets d/L + (1-d)/N and
\* every other page, `page` included, gets (1-d)/N; when `page` has no links,
\* every page gets 1/N.  Each value is the float the expression evaluates to,
\* and it is less than 1e-9 away from the exact value of the expression.  (L,
\* N and the tolerance t are bound once for all the keys.)
C1_TransitionModelValues ==
    TransitionModelReturned =>
        \E L \in {Cardinality(corpus[cur_page])}, N \in {num_pages}, t \in {SumTolerance} :
            /\ DOMAIN prob_distribution = Pages
            /\ \A key \in Pages :
                  IF L = 0
                  THEN /\ prob_distribution[key] = UniformValue(N)
                       /\ NearRatio(prob_distribution[key], 1, N, t)
                  ELSE IF key \in corpus[cur_page]
                  THEN /\ prob_distribution[key] = LinkedValue(damping_factor, L, N)
                       /\ NearRatio(prob_distribution[key],
                                    dn * N + (dd - dn) * L, dd * L * N, t)
                  ELSE /\ prob_distribution[key] = UnlinkedValue(damping_factor, N)
                       /\ NearRatio(prob_distribution[key], dd - dn, dd * N, t)

\* A page with one link in a corpus of three pages: a linked page, an
\* unlinked page and the page itself all get their value, and (1 - 0.85)/3
\* is not the float nearest to 0.05.
C1_Witness ==
    /\ TransitionModelReturned
    /\ num_pages = 3
    /\ Cardinality(corpus[cur_page]) = 1
    /\ damping_factor = DAMPING
    /\ \E key \in Pages : prob_distribution[key] # FloatOfRatio(1, 20)
                          /\ NearRatio(prob_distribution[key], 1, 20, SumTolerance)

\* The sum of the first k of the floats f[1], f[2], ... as the numbers they
\* stand for: a mantissa of any length and its exponent, nothing rounded.
ExactSumTo[f \in Seq(Float), k \in Nat] ==
    IF k = 0 THEN FloatZero
    ELSE LET rest == ExactSumTo[f, k - 1]
             e == Min(rest[2], f[k][2])
         IN  <<BigAdd(BigShiftLeft[rest[1], rest[2] - e],
                      BigShiftLeft[f[k][1], f[k][2] - e]), e>>

\* The sum of the first k of the floats f[1], f[2], ..., added as floats in
\* the corpus's order.
FloatSumTo[f \in Seq(Float), k \in Nat] ==
    IF k = 0 THEN FloatZero ELSE FloatAdd(FloatSumTo[f, k - 1], f[k])

\* The values transition_model returned are probabilities: positive floats.
ValuesArePositive == \A key \in Pages : FloatLess(FloatZero, prob_distribution[key])

Written == {p \in Pages : p < page_index}

\* C3: every rank written in a sweep equals (1-d)/N + d * sum of
\* rank(q)/|out(q)| over the q linking to it, evaluated on the ranks as the
\* sweep found them (sweep_start): no new rank reads a value written in the
\* same sweep.
C3_SweepIsSynchronous ==
    (fn = "iterate_pagerank" /\ pc \in {"sweep", "done"}) =>
        \A p \in Written :
            page_distribution[p] = NewRank(corpus, damping_factor, sweep_start, p)

\* The rank of p is less than 0.001 away from the rank it overwrote.
ChangedLittle(p) == ExactlyWithin(page_distribution[p], overwritten[p], Threshold)

SweepOver == pc = "sweep" /\ page_index > num_pages

\* C4: iterate_pagerank returns only at the end of a sweep in which every
\* rank moved by less than 0.001 from the value it overwrote, and it returns
\* that sweep's mapping untouched; a sweep in which some rank moved by 0.001
\* or more is followed by another sweep.
C4_ReturnsWhenAllWithinThreshold ==
    [][fn = "iterate_pagerank" =>
          /\ pc' = "done" =>
                /\ SweepOver
                /\ \A p \in Pages : ChangedLittle(p)
                /\ page_distribution' = page_distribution
          /\ (SweepOver /\ \E p \in Pages : ~ChangedLittle(p)) =>
                /\ pc' = "sweep"
                /\ page_index' = 1
                /\ convergence_count' = 0
                /\ page_distribution' = page_distribution]_vars

\* The ranks of line 134, which the first sweep starts from.
InitialRanks == [p \in Pages |-> FloatOfRatio(1, num_pages)]

\* A return on a three-page corpus from a sweep that was not the first and
\* that still moved a rank.
C4_Witness ==
    /\ IterateReturned
    /\ num_pages = 3
    /\ sweep_start # InitialRanks
    /\ sweep_start # page_distribution
    /\ \A p \in Pages : ChangedLittle(p)

NoDeadEnds == \A p \in Pages : corpus[p] # {}

\* C5: on a corpus without dead ends the ranks of iterate_pagerank sum to 1
\* (as floats, to within 1e-9) at initialisation, at the end of every sweep
\* and in the returned mapping.
C5_RanksSumToOne ==
    (/\ fn = "iterate_pagerank"
     /\ NoDeadEnds
     /\ Pages # {}
     /\ pc = "done" \/ (pc = "sweep" /\ page_index \in {1, num_pages + 1})) =>
        ExactlyWithin(FloatSumTo[page_distribution, num_pages], FloatOfInt(1),
                      SumTolerance)

\* The sum of the first k of the integers f[1], f[2], ...
SumTo[f \in Seq(Int), k \in Nat] ==
    IF k = 0 THEN 0 ELSE f[k] + SumTo[f, k - 1]

\* C6: for n >= 1 sample_pagerank tallies one visit per pass of its loop,
\* n-1 in all, each to a page of the corpus; the mapping it returns has every
\* page as a key, every value a visit count divided by n, and the values sum
\* to (n-1)/n.
C6_SampleTalliesNMinusOne ==
    (fn = "sample_pagerank" /\ n >= 1 /\ Pages # {}) =>
        /\ pc \in {"sample_loop", "done"}
        /\ DOMAIN page_distribution = Pages
        /\ pc = "sample_loop" =>
              /\ i <= n
              /\ \A p \in Pages : page_distribution[p] >= 0
              /\ SumTo[page_distribution, num_pages] = i - 1
        /\ pc = "done" =>
              /\ \A p \in Pages :
                    \E visits \in 0 .. n - 1 : RatIs(page_distribution[p], visits, n)
              /\ RatIs(RatSum(page_distribution), n - 1, n)

\* A walk of n = 3 that tallied two different pages.
C6_Witness ==
    /\ SampleReturned
    /\ n = 3
    /\ Cardinality({p \in Pages : page_distribution[p] = <<1, 3>>}) = 2

InvalidCall ==
    \/ fn = "sample_pagerank" /\ (n <= 0 \/ Pages = {})
    \/ fn = "iterate_pagerank" /\ Pages = {}

\* C7: a call of sample_pagerank with n <= 0 or an empty corpus, and a call
\* of iterate_pagerank with an empty corpus, ends in an error (whatever
\* exception stands for InvalidInput) and returns no mapping.
C7_InvalidInputIsRejected ==
    (InvalidCall /\ Finished) => (pc = "error" /\ err # "none")

\* C8: on the corpus of one page without links both estimators return rank 1
\* for that page: iterate_pagerank for every damping factor, sample_pagerank
\* for every n >= 1.
C8_SinglePageHasRankOne ==
    (num_pages = 1 /\ pc = "done") =>
        /\ fn = "iterate_pagerank" => page_distribution[1] = FloatOfInt(1)
        /\ (fn = "sample_pagerank" /\ n >= 1) => page_distribution[1] = RatOne

\* C9: no step of any call changes the corpus (its pages or any page's
\* links) or the damping factor; a call writes only its own locals.
C9_CorpusIsReadOnly ==
    [][corpus' = corpus /\ damping_factor' = damping_factor]_vars

\* transition_model has returned the distribution of a dead end, the case a
\* link set would be filled in.
C9_Witness ==
    /\ TransitionModelReturned
    /\ num_pages = 2
    /\ corpus[cur_page] = {}
    /\ prob_distribution = [p \in Pages |-> FloatOfRatio(1, 2)]

\* C10: with damping factor 0.85 every call of iterate_pagerank on a
\* non-empty corpus, with or without dead ends, eventually returns.
C10_IterateTerminates ==
    (fn = "iterate_pagerank" /\ damping_factor = DAMPING /\ Pages # {})
        ~> (IterateReturned /\ damping_factor = DAMPING)

\* A return on a corpus of three pages with a dead end, after the while loop
\* went round and every rank left its initial value.
C10_Witness ==
    /\ IterateReturned
    /\ damping_factor = DAMPING
    /\ num_pages = 3
    /\ \E p \in Pages : corpus[p] = {}
    /\ sweep_start # InitialRanks
    /\ \A p \in Pages : page_distribution[p] # InitialRanks[p]

====
